---- MODULE Spec2Model ----
(***************************************************************************)
(* Model of the compile -> execute -> score -> mutate loop of the          *)
(* agent-bench optimizer:                                                  *)
(*   - runTests              (runner/vitest.ts)                            *)
(*   - optimizePromptWithAI  (optimizer/ai.ts)                             *)
(*   - optimizeAgentSpec     (optimizer/index.ts)                          *)
(*   - transpileToVitest     (transpiler/vitest.ts)                        *)
(*   - testCommand, runCommand (cli/commands)                              *)
(*   - formatResponseData    (runner/vitest.ts)                            *)
(*   - benchmark, test       (index.ts, the registration API)              *)
(*                                                                         *)
(* Six specifications share the variables:                                 *)
(*   Spec         one run of optimizeAgentSpec, one action per awaited     *)
(*                step                                                     *)
(*   SpecRun      one call of runTests on an arbitrary host report, by     *)
(*                itself (followed by the pass-rate computation of         *)
(*                formatErrorAnalysis) or from the test and run commands   *)
(*   SpecCompile  one call of transpileToVitest on an arbitrary            *)
(*                specification                                            *)
(*   SpecEscape   the system prompt written into the compiled program      *)
(*                and read back from its template literal                  *)
(*   SpecFormat   one call of formatResponseData on an arbitrary entry     *)
(*   SpecRegister any sequence of benchmark() and test() calls             *)
(*                                                                         *)
(* Pass rates are percentages computed by the code in IEEE doubles as      *)
(* (passed / total) * 100.  They are modelled as exact rationals           *)
(* [num, den]; for every total below 50 the double compares with every     *)
(* integer threshold exactly as the rational does (the first difference    *)
(* is 29/50 against 58).                                                   *)
(***************************************************************************)
EXTENDS Integers, Sequences, FiniteSets, TLC

VARIABLES
    cfg,            \* optimizerConfig: [iterations, minPassRate, hasOutput]
    hostUnits,      \* number of units the test host reports per execution
    pc,             \* position in optimizeAgentSpec
    i,              \* loop counter of optimizeAgentSpec
    originalSpec,   \* const originalSpec
    currentSpec,    \* let currentSpec
    testResults,    \* const testResults: RunResult[]
    improvements,   \* const improvements: string[]
    testFile,       \* content of the temporary compiled-program file, or NoFile
    savedSpec,      \* content written to outputPath, or NoSpec
    result,         \* value returned by optimizeAgentSpec, or NoResult
    runCalls,       \* number of calls to runTests made so far
    aiCalls,        \* number of generateText requests made so far
    execPrompts,    \* system prompt of currentSpec at each call to runTests
    requests,       \* arguments and outcome of each optimizePromptWithAI call
    thrown,         \* error optimizeAgentSpec rejects with, or NoError
    hostIn,         \* SpecRun: the behaviour of the test host
    runOut,         \* SpecRun: the RunResult returned by runTests, or NoResult
    rateOut,        \* SpecRun: the pass rate computed from runOut, or NoRate
    exitCode,       \* SpecRun: status passed to process.exit, or NoExit
    hostState,      \* SpecRun: "none", "open" or "closed" host instance
    compIn,         \* SpecCompile: the specification given to the transpiler
    compOut,        \* SpecCompile: what transpileToVitest produced, or NoFile
    escIn,          \* SpecEscape: the characters of a system prompt
    escOut,         \* SpecEscape: the emitted literal, then what it denotes
    fmtIn,          \* SpecFormat: one responseData entry, texts as lengths
    fmtOut,         \* SpecFormat: the lines formatResponseData wrote for it
    testSuites,     \* SpecRegister: const testSuites
    currentSuite,   \* SpecRegister: index in testSuites of currentSuite, 0 = null
    callStack,      \* SpecRegister: suites whose callback is executing
    testCalls       \* SpecRegister: where each test() call was made, its outcome

vars == <<cfg, hostUnits, pc, i, originalSpec, currentSpec, testResults,
          improvements, testFile, savedSpec, result, runCalls, aiCalls,
          execPrompts, requests, thrown, hostIn, runOut, rateOut, exitCode,
          hostState, compIn, compOut, escIn, escOut, fmtIn, fmtOut,
          testSuites, currentSuite, callStack, testCalls>>

\* the variables of optimizeAgentSpec other than pc
optVars == <<cfg, hostUnits, i, originalSpec, currentSpec, testResults,
             improvements, testFile, savedSpec, result, runCalls, aiCalls,
             execPrompts, requests, thrown>>

runVars == <<hostIn, runOut, rateOut, exitCode, hostState>>

compVars == <<compIn, compOut>>

textVars == <<escIn, escOut, fmtIn, fmtOut>>

regVars == <<testSuites, currentSuite, callStack, testCalls>>

(***************************************************************************)
(* Bounds                                                                  *)
(***************************************************************************)
MaxIter == 3        \* largest iteration budget explored
MaxTasks == 5       \* largest number of units per execution in Spec
MaxFiles == 2       \* largest number of files in a host report in SpecRun
MaxProps == 1       \* largest number of properties of a schema in SpecCompile
MaxDepth == 2       \* deepest nesting of object properties in SpecCompile
MaxToolRefs == 2    \* largest number of tool names a benchmark lists
MaxPromptLen == 3   \* longest system prompt explored in SpecEscape
Slack == 1          \* text lengths in SpecFormat lie this close to a limit
MaxSuites == 3      \* largest number of benchmark() calls in SpecRegister
MaxTestCalls == 2   \* largest number of test() calls in SpecRegister

(***************************************************************************)
(* Program constants                                                       *)
(***************************************************************************)
DefaultMinPassRate == 80
PromptLimit == 200          \* data.data.prompt?.substring(0, 200)
ResponseLimit == 500        \* response.substring(0, 500)
JsonLimit == 300            \* JSON.stringify(response).substring(0, 300)
SystemMessageLimit == 100   \* data.data.systemMessage.substring(0, 100)

\* values standing for "absent" (undefined, no file on disk)
NoFile == [absent |-> "file"]
NoSpec == [absent |-> "spec"]
NoResult == [absent |-> "result"]
NoRate == [absent |-> "rate"]
NoError == [kind |-> "undefined", msg |-> ""]
NoExit == -1

(***************************************************************************)
(* The test host                                                           *)
(***************************************************************************)
\* values a host may put in a file's errors list: an Error object, a
\* non-Error truthy value, a falsy value
HostErrorValues ==
    { [kind |-> "Error",  msg |-> "boom"],
      [kind |-> "string", msg |-> "boom"],
      [kind |-> "string", msg |-> ""] }

\* file.result?.state; "none" stands for a file without a result
HostStates == {"pass", "fail", "skip", "none"}

HostFile(s, errs) == [state |-> s, errors |-> errs]

RECURSIVE SeqsUpTo(_, _)
SeqsUpTo(S, n) ==
    IF n = 0 THEN { <<>> }
    ELSE LET shorter == SeqsUpTo(S, n - 1)
         IN  shorter \cup { Append(s, x) : s \in shorter, x \in S }

\* JavaScript truthiness of an errors[0] value
Truthy(e) == e.kind = "Error" \/ (e.kind = "string" /\ e.msg # "")

\* error instanceof Error ? error : new Error(String(error))
ProperError(e) == [kind |-> "Error", msg |-> e.msg]

\* the error caught when createVitest or vitest.start throws
ThrownError == [kind |-> "Error", msg |-> "host unavailable"]

(***************************************************************************)
(* runTests                                                                *)
(***************************************************************************)
\* what the host does in one call: createVitest throws, vitest.start
\* throws, or the run completes and vitest.state.getFiles() returns files
HostBehaviours(files) ==
    { [kind |-> "createThrows", files |-> <<>>],
      [kind |-> "startThrows", files |-> <<>>] }
    \cup { [kind |-> "ok", files |-> f] : f \in files }

\* file.result?.state ?? 'unknown'
TaskState(file) == IF file.state = "none" THEN "unknown" ELSE file.state

\* file.result.errors?.[0], NoError when the list is empty or missing
FirstError(file) == IF Len(file.errors) > 0 THEN file.errors[1] ELSE NoError

\* the condition under which the map callback attaches an error
CarriesError(file) ==
    /\ file.state = "fail"
    /\ Truthy(FirstError(file))

\* the value the map callback returns for one file
TaskResult(file, k) ==
    [name  |-> k,
     state |-> TaskState(file),
     error |-> IF CarriesError(file) THEN ProperError(FirstError(file))
               ELSE NoError]

RECURSIVE MapFiles(_, _)
MapFiles(files, n) ==
    IF n = 0 THEN <<>>
    ELSE Append(MapFiles(files, n - 1), TaskResult(files[n], n))

\* files.map(...)
TaskResults(files) == MapFiles(files, Len(files))

RECURSIVE TaskErrors(_)
\* the errors pushed to taskErrors, in file order
TaskErrors(files) ==
    IF files = <<>> THEN <<>>
    ELSE LET rest == TaskErrors(Tail(files))
         IN  IF CarriesError(Head(files))
             THEN <<ProperError(FirstError(Head(files)))>> \o rest
             ELSE rest

\* const success = taskErrors.length === 0
RunSuccess(taskErrors) == Len(taskErrors) = 0

\* variant: the catch block returns an empty taskErrors list
RunTestsDropsError(host) ==
    IF host.kind # "ok"
    THEN [success     |-> FALSE,
          taskResults |-> <<>>,
          taskErrors  |-> <<>>,
          exitCode    |-> 1]
    ELSE [success     |-> RunSuccess(TaskErrors(host.files)),
          taskResults |-> TaskResults(host.files),
          taskErrors  |-> TaskErrors(host.files),
          exitCode    |-> 0]

\* the RunResult returned by runTests for one behaviour of the host
RunTests(host) ==
    IF host.kind # "ok"
    THEN [success     |-> FALSE,
          taskResults |-> <<>>,
          taskErrors  |-> <<ThrownError>>,
          exitCode    |-> 1]
    ELSE [success     |-> RunSuccess(TaskErrors(host.files)),
          taskResults |-> TaskResults(host.files),
          taskErrors  |-> TaskErrors(host.files),
          exitCode    |-> 0]

(***************************************************************************)
(* Pass rate                                                               *)
(***************************************************************************)
\* variant: every outcome that did not fail counts as passed
PassedTasksNotFailed(taskResults) ==
    Len(SelectSeq(taskResults, LAMBDA task : task.state # "fail"))

\* taskResults.filter(task => task.state === 'pass').length
PassedTasks(taskResults) ==
    Len(SelectSeq(taskResults, LAMBDA task : task.state = "pass"))

\* variant: the fraction passed / total, not scaled to a percentage
PassRateFraction(taskResults) ==
    LET totalTasks == Len(taskResults)
        passedTasks == PassedTasks(taskResults)
    IN  IF totalTasks > 0
        THEN [num |-> passedTasks, den |-> totalTasks]
        ELSE [num |-> 0, den |-> 1]

\* variant: a report without outcomes has pass rate 100
PassRateEmptyIsFull(taskResults) ==
    LET totalTasks == Len(taskResults)
        passedTasks == PassedTasks(taskResults)
    IN  IF totalTasks > 0
        THEN [num |-> passedTasks * 100, den |-> totalTasks]
        ELSE [num |-> 100, den |-> 1]

\* totalTasks > 0 ? (passedTasks / totalTasks) * 100 : 0, as a rational
PassRate(taskResults) ==
    LET totalTasks == Len(taskResults)
        passedTasks == PassedTasks(taskResults)
    IN  IF totalTasks > 0
        THEN [num |-> passedTasks * 100, den |-> totalTasks]
        ELSE [num |-> 0, den |-> 1]

\* rate >= t for a rational rate and an integer t
RateAtLeast(rate, t) == rate.num >= t * rate.den

(***************************************************************************)
(* optimizePromptWithAI                                                    *)
(***************************************************************************)
\* texts the inference provider may return, one fresh text per request
ProviderTexts ==
    <<"improved prompt 1", "improved prompt 2", "improved prompt 3",
      "improved prompt 4", "improved prompt 5", "improved prompt 6">>

\* outcomes of the generateText call issued in iteration k (0-based): it
\* rejects, or resolves with an empty text, or resolves with a fresh text
ProviderResponses(k) ==
    { [ok |-> FALSE, text |-> ""],
      [ok |-> TRUE,  text |-> ""],
      [ok |-> TRUE,  text |-> ProviderTexts[k + 1]] }

\* variant: the response text is returned without the empty-text check
OptimizePromptWithAINoFallback(currentPrompt, response) ==
    IF ~response.ok
    THEN [threw |-> TRUE, prompt |-> currentPrompt]
    ELSE [threw |-> FALSE, prompt |-> response.text]

\* variant: the catch block returns the current prompt
OptimizePromptWithAISwallows(currentPrompt, response) ==
    IF ~response.ok \/ response.text = ""
    THEN [threw |-> FALSE, prompt |-> currentPrompt]
    ELSE [threw |-> FALSE, prompt |-> response.text]

\* the value optimizePromptWithAI resolves with, or threw = TRUE when it
\* rejects with 'Failed to optimize prompt'
OptimizePromptWithAI(currentPrompt, response) ==
    IF ~response.ok
    THEN [threw |-> TRUE, prompt |-> currentPrompt]
    ELSE IF response.text = ""
         THEN [threw |-> FALSE, prompt |-> currentPrompt]
         ELSE [threw |-> FALSE, prompt |-> response.text]

(***************************************************************************)
(* transpileToVitest                                                       *)
(***************************************************************************)
\* property types met in specifications; 'vector3' stands for every type
\* name the transpiler has no case for
PropTypes == {"string", "number", "boolean", "object", "vector3"}

\* property definitions nested at most depth deep
RECURSIVE PropDefs(_)
PropDefs(depth) ==
    LET leaves == { [type |-> t, description |-> "", properties |-> <<>>] :
                      t \in PropTypes }
    IN  IF depth <= 1
        THEN leaves
        ELSE leaves \cup
             { [type |-> "object", description |-> "",
                properties |-> <<[name |-> "inner", def |-> d]>>] :
                 d \in PropDefs(depth - 1) }

PropName(k) == IF k = 1 THEN "id" ELSE IF k = 2 THEN "amount" ELSE "extra"

\* Object.entries(properties) for the definitions defs, in insertion order
RECURSIVE NameProps(_)
NameProps(defs) ==
    IF defs = <<>> THEN <<>>
    ELSE Append(NameProps(SubSeq(defs, 1, Len(defs) - 1)),
                [name |-> PropName(Len(defs)), def |-> defs[Len(defs)]])

\* a generated validator: z.string(), z.number(), z.boolean(), z.any(), or
\* z.object({ props }), followed by .describe(describe) when describe # ""
Zod(kind, props, describe) ==
    [zod |-> kind, props |-> props, describe |-> describe]

\* variant: an unrecognized type falls back to z.string()
ToolZodTypeStringDefault(def) ==
    Zod(IF def.type \in {"number", "boolean"} THEN def.type ELSE "string",
        <<>>, def.description)

\* the validator generateToolParameters emits for one input property
ToolZodType(def) ==
    Zod(IF def.type \in {"string", "number", "boolean"} THEN def.type
        ELSE "any",
        <<>>, def.description)

RECURSIVE MapToolProps(_)
MapToolProps(entries) ==
    IF entries = <<>> THEN <<>>
    ELSE Append(MapToolProps(SubSeq(entries, 1, Len(entries) - 1)),
                [name |-> entries[Len(entries)].name,
                 zod  |-> ToolZodType(entries[Len(entries)].def)])

\* the entries of the z.object generated for a tool's parameters
GenerateToolParameters(inputSchema) == MapToolProps(inputSchema.properties)

\* the validator generateSchemas emits for a property of a nested object
NestedZodType(def) ==
    Zod(IF def.type \in {"string", "number", "boolean"} THEN def.type
        ELSE "any",
        <<>>, "")

RECURSIVE MapNestedProps(_)
MapNestedProps(entries) ==
    IF entries = <<>> THEN <<>>
    ELSE Append(MapNestedProps(SubSeq(entries, 1, Len(entries) - 1)),
                [name |-> entries[Len(entries)].name,
                 zod  |-> NestedZodType(entries[Len(entries)].def)])

\* the validator generateSchemas emits for a property of a schema
SchemaZodType(def) ==
    IF def.type = "object"
    THEN Zod("object", MapNestedProps(def.properties), "")
    ELSE Zod(IF def.type \in {"string", "number", "boolean"} THEN def.type
             ELSE "any",
             <<>>, "")

RECURSIVE MapSchemaProps(_)
MapSchemaProps(entries) ==
    IF entries = <<>> THEN <<>>
    ELSE Append(MapSchemaProps(SubSeq(entries, 1, Len(entries) - 1)),
                [name |-> entries[Len(entries)].name,
                 zod  |-> SchemaZodType(entries[Len(entries)].def)])

\* the const declarations generated for the schemas mapping
RECURSIVE GenerateSchemas(_)
GenerateSchemas(schemas) ==
    IF schemas = <<>> THEN <<>>
    ELSE Append(GenerateSchemas(SubSeq(schemas, 1, Len(schemas) - 1)),
                [name  |-> schemas[Len(schemas)].name,
                 props |-> MapSchemaProps(schemas[Len(schemas)].properties)])

\* the entries of the tools object of one test: a name that is not a key
\* of allTools maps to null and is filtered out
RECURSIVE GenerateToolsParam(_, _)
GenerateToolsParam(allTools, toolNames) ==
    IF toolNames = <<>> THEN <<>>
    ELSE LET name == toolNames[Len(toolNames)]
             rest == GenerateToolsParam(allTools,
                        SubSeq(toolNames, 1, Len(toolNames) - 1))
         IN  IF name \notin DOMAIN allTools
             THEN rest
             ELSE Append(rest,
                    [name       |-> name,
                     parameters |->
                         GenerateToolParameters(allTools[name].inputSchema),
                     schema     |-> allTools[name].outputSchema])

\* the it(...) blocks generated for the benchmarks
RECURSIVE MapBenchmarks(_, _)
MapBenchmarks(allTools, benchmarks) ==
    IF benchmarks = <<>> THEN <<>>
    ELSE LET benchmark == benchmarks[Len(benchmarks)]
         IN  Append(MapBenchmarks(allTools,
                        SubSeq(benchmarks, 1, Len(benchmarks) - 1)),
                    [name   |-> benchmark.name,
                     tools  |-> IF Len(benchmark.tools) > 0
                                THEN GenerateToolsParam(allTools,
                                                        benchmark.tools)
                                ELSE <<>>,
                     schema |-> benchmark.judge.evaluationSchema])

GenerateTests(spec) == MapBenchmarks(spec.tools, spec.benchmarks)

(***************************************************************************)
(* optimizeAgentSpec                                                       *)
(***************************************************************************)
\* system prompts of the input specification (the schema accepts any string)
InputPrompts == {"", "You are a support agent."}

\* configured values of minPassRate that are explored
Thresholds == {0, 80, 100}

\* whether an outputPath is passed; optimizeCommand always passes one
OutputPathGiven == {TRUE}

\* a tool whose input schema has the given properties
Tool(props) ==
    [description  |-> "a tool",
     inputSchema  |-> [type |-> "object", properties |-> props],
     outputSchema |-> "Eval"]

\* an AgentSpec with the given system prompt
AgentSpec(prompt) ==
    [metadata   |-> "metadata",
     schemas    |-> <<[name |-> "Eval",
                       properties |-> NameProps(<<[type |-> "boolean",
                           description |-> "", properties |-> <<>>]>>)]>>,
     agent      |-> [model |-> "gpt-4o", systemPrompt |-> prompt,
                     toolChoice |-> "auto"],
     tools      |-> [n \in {"lookup"} |-> Tool(<<>>)],
     benchmarks |-> <<[name |-> "greets", tools |-> <<"lookup">>,
                       judge |-> [evaluationSchema |-> "Eval"]]>>]

\* variant: agent: { systemPrompt: improvedPrompt }, without the spread
WithSystemPromptNoSpread(spec, improvedPrompt) ==
    [spec EXCEPT !.agent = [model |-> "", systemPrompt |-> improvedPrompt,
                            toolChoice |-> ""]]

\* { ...currentSpec, agent: { ...currentSpec.agent, systemPrompt } }
WithSystemPrompt(spec, improvedPrompt) ==
    [spec EXCEPT !.agent = [spec.agent EXCEPT !.systemPrompt = improvedPrompt]]

\* the compiled program: the parts of the specification it embeds; the
\* system prompts given to it as strings hold no character that
\* EscapeSystemPrompt changes
TranspileToVitest(spec) ==
    [describe     |-> spec.metadata,
     schemas      |-> GenerateSchemas(spec.schemas),
     systemPrompt |-> spec.agent.systemPrompt,
     model        |-> spec.agent.model,
     tests        |-> GenerateTests(spec)]

\* optimizerConfig.minPassRate || 80
MinPassRate(config) ==
    IF config.minPassRate # 0 THEN config.minPassRate ELSE DefaultMinPassRate

\* variant: passRate > minPassRate
PassRateSuccessStrict(passRate, minPassRate) ==
    passRate.num > minPassRate * passRate.den

\* passRate >= minPassRate
PassRateSuccess(passRate, minPassRate) == RateAtLeast(passRate, minPassRate)

\* variant: the loop breaks only at the last iteration
LoopBreaksOnlyAtEnd(k, iterations, passRateSuccess) == k = iterations - 1

\* variant: the last iteration is taken to be i === iterations
LoopBreaksOffByOne(k, iterations, passRateSuccess) ==
    k = iterations \/ passRateSuccess

\* variant: the loop breaks only when the threshold is met
LoopBreaksOnlyOnSuccess(k, iterations, passRateSuccess) == passRateSuccess

\* i === optimizerConfig.iterations - 1 || passRateSuccess
LoopBreaks(k, iterations, passRateSuccess) ==
    k = iterations - 1 \/ passRateSuccess

\* variant: i <= optimizerConfig.iterations
LoopContinuesInclusive(k, iterations) == k <= iterations

\* i < optimizerConfig.iterations
LoopContinues(k, iterations) == k < iterations

\* the reports of a host that runs n units, some passing and the others
\* failing with an error
RECURSIVE UnitFiles(_, _)
UnitFiles(passed, failed) ==
    IF passed > 0
    THEN <<HostFile("pass", <<>>)>> \o UnitFiles(passed - 1, failed)
    ELSE IF failed > 0
         THEN <<HostFile("fail", <<[kind |-> "Error", msg |-> "boom"]>>)>>
              \o UnitFiles(passed, failed - 1)
         ELSE <<>>

LoopHosts(n) == HostBehaviours({ UnitFiles(p, n - p) : p \in 0..n })

\* whether a call of fs.writeFileSync returns (TRUE) or throws (FALSE)
WriteOutcomes == BOOLEAN

\* the errors optimizeAgentSpec can reject with
AiFailure == [kind |-> "Error", msg |-> "Failed to optimize prompt"]
TestFileWriteFailure == [kind |-> "Error", msg |-> "cannot write test file"]
OutputWriteFailure == [kind |-> "Error", msg |-> "cannot write output file"]

\* if (fs.existsSync(testFilePath)) fs.unlinkSync(testFilePath), after the
\* loop
UnlinkOnReturn(file) == NoFile

\* variant: the catch block rethrows without deleting the file
UnlinkOnErrorMissing(file) == file

\* if (fs.existsSync(testFilePath)) fs.unlinkSync(testFilePath), in the
\* catch block
UnlinkOnError(file) == NoFile

\* variant: iterations: testResults.length
ResultIterationsExecuted(config, history) == Len(history)

\* iterations: optimizerConfig.iterations, in the returned object
ResultIterations(config, history) == config.iterations

\* variant: the report is put in front of the history
PushReportInFront(history, report) == <<report>> \o history

\* testResults.push(testResult)
PushReport(history, report) == Append(history, report)

\* variant: the feedback call is given testResults[0]
FeedbackReportFirst(history, k) == history[1]

\* testResults[i], the argument of optimizePromptWithAI in pass k of the
\* loop
FeedbackReport(history, k) == history[k + 1]

\* variant: the file is not rewritten after the prompt update
RecompileSkipped(file, spec) == file

\* const updatedCode = transpileToVitest(currentSpec);
\* fs.writeFileSync(testFilePath, updatedCode, 'utf8')
Recompile(file, spec) == TranspileToVitest(spec)

\* the state when the for loop is first entered
OptInit ==
    /\ cfg \in [iterations : 0..MaxIter, minPassRate : Thresholds,
                hasOutput : OutputPathGiven]
    /\ hostUnits \in 0..MaxTasks
    /\ \E prompt \in InputPrompts :
          /\ originalSpec = AgentSpec(prompt)
          /\ currentSpec = AgentSpec(prompt)
          /\ testFile = TranspileToVitest(AgentSpec(prompt))
    /\ testResults = <<>>
    /\ improvements = <<>>
    /\ i = 0
    /\ pc = IF LoopContinues(0, cfg.iterations) THEN "runTests" ELSE "finish"
    /\ savedSpec = NoSpec
    /\ result = NoResult
    /\ runCalls = 0
    /\ aiCalls = 0
    /\ execPrompts = <<>>
    /\ requests = <<>>
    /\ thrown = NoError

\* one pass through the loop body up to the break or the feedback call;
\* runTests never rejects
RunIteration ==
    /\ pc = "runTests"
    /\ \E host \in LoopHosts(hostUnits) :
          LET report == RunTests(host)
              passRate == PassRate(report.taskResults)
              passRateSuccess == PassRateSuccess(passRate, MinPassRate(cfg))
          IN  /\ testResults' = PushReport(testResults, report)
              /\ pc' = IF LoopBreaks(i, cfg.iterations, passRateSuccess)
                       THEN "finish" ELSE "optimize"
    /\ runCalls' = runCalls + 1
    /\ execPrompts' = Append(execPrompts, currentSpec.agent.systemPrompt)
    /\ UNCHANGED <<cfg, hostUnits, i, originalSpec, currentSpec, improvements,
                   testFile, savedSpec, result, aiCalls, requests, thrown>>

\* the feedback call, the prompt update and the recompilation; a rejected
\* call or a failed write goes to the catch block, which deletes the file
\* and rethrows
ImprovePrompt ==
    /\ pc = "optimize"
    /\ aiCalls' = aiCalls + 1
    /\ \E response \in ProviderResponses(i), written \in WriteOutcomes :
          LET improved == OptimizePromptWithAI(currentSpec.agent.systemPrompt,
                                               response)
              updated == WithSystemPrompt(currentSpec, improved.prompt)
          IN  /\ requests' = Append(requests,
                     [currentPrompt |-> currentSpec.agent.systemPrompt,
                      testResult    |-> FeedbackReport(testResults, i),
                      ok            |-> response.ok])
              /\ IF improved.threw
                 THEN /\ pc' = "threw"
                      /\ thrown' = AiFailure
                      /\ testFile' = UnlinkOnError(testFile)
                      /\ UNCHANGED <<i, currentSpec, improvements>>
                 ELSE /\ improvements' = Append(improvements, i + 1)
                      /\ currentSpec' = updated
                      /\ IF written
                         THEN /\ testFile' = Recompile(testFile, updated)
                              /\ i' = i + 1
                              /\ pc' = IF LoopContinues(i + 1, cfg.iterations)
                                       THEN "runTests" ELSE "finish"
                              /\ UNCHANGED thrown
                         ELSE /\ pc' = "threw"
                              /\ thrown' = TestFileWriteFailure
                              /\ testFile' = UnlinkOnError(testFile)
                              /\ UNCHANGED i
    /\ UNCHANGED <<cfg, hostUnits, originalSpec, testResults, savedSpec,
                   result, runCalls, execPrompts>>

\* after the loop: save the specification, delete the file, return; a
\* failed save goes to the catch block
Finish ==
    /\ pc = "finish"
    /\ \E written \in WriteOutcomes :
          IF written \/ ~cfg.hasOutput
          THEN /\ savedSpec' = IF cfg.hasOutput THEN currentSpec
                               ELSE savedSpec
               /\ testFile' = UnlinkOnReturn(testFile)
               /\ result' = [originalSpec  |-> originalSpec,
                             optimizedSpec |-> currentSpec,
                             iterations    |-> ResultIterations(cfg,
                                                                testResults),
                             testResults   |-> testResults,
                             improvements  |-> improvements]
               /\ pc' = "returned"
               /\ UNCHANGED thrown
          ELSE /\ pc' = "threw"
               /\ thrown' = OutputWriteFailure
               /\ testFile' = UnlinkOnError(testFile)
               /\ UNCHANGED <<savedSpec, result>>
    /\ UNCHANGED <<cfg, hostUnits, i, originalSpec, currentSpec, testResults,
                   improvements, runCalls, aiCalls, execPrompts, requests>>

\* the variables of the other specifications, while they are idle
IdleRun ==
    /\ hostIn = [kind |-> "none", files |-> <<>>]
    /\ runOut = NoResult
    /\ rateOut = NoRate
    /\ exitCode = NoExit
    /\ hostState = "none"

IdleCompile ==
    /\ compIn = NoSpec
    /\ compOut = NoFile

IdleText ==
    /\ escIn = <<>>
    /\ escOut = NoFile
    /\ fmtIn = NoResult
    /\ fmtOut = NoFile

IdleRegister ==
    /\ testSuites = <<>>
    /\ currentSuite = 0
    /\ callStack = <<>>
    /\ testCalls = <<>>

Init ==
    /\ OptInit
    /\ IdleRun
    /\ IdleCompile
    /\ IdleText
    /\ IdleRegister

Next ==
    \/ RunIteration /\ UNCHANGED <<runVars, compVars, textVars, regVars>>
    \/ ImprovePrompt /\ UNCHANGED <<runVars, compVars, textVars, regVars>>
    \/ Finish /\ UNCHANGED <<runVars, compVars, textVars, regVars>>

Spec == Init /\ [][Next]_vars

(***************************************************************************)
(* SpecRun: runTests on an arbitrary host report, then the pass rate       *)
(***************************************************************************)
\* every file a host may report
HostFiles ==
    { HostFile(s, errs) :
        s \in HostStates,
        errs \in { <<>> } \cup { <<e>> : e \in HostErrorValues } }

\* the variables of optimizeAgentSpec, while it is idle
IdleOpt ==
    /\ cfg = [iterations |-> 0, minPassRate |-> 0, hasOutput |-> FALSE]
    /\ hostUnits = 0
    /\ i = 0
    /\ originalSpec = NoSpec
    /\ currentSpec = NoSpec
    /\ testResults = <<>>
    /\ improvements = <<>>
    /\ testFile = NoFile
    /\ savedSpec = NoSpec
    /\ result = NoResult
    /\ runCalls = 0
    /\ aiCalls = 0
    /\ execPrompts = <<>>
    /\ requests = <<>>
    /\ thrown = NoError

RunInit ==
    /\ hostIn \in HostBehaviours(SeqsUpTo(HostFiles, MaxFiles))
    /\ runOut = NoResult
    /\ rateOut = NoRate
    /\ exitCode = NoExit
    /\ hostState = "none"
    /\ pc = "call"
    /\ IdleOpt
    /\ IdleCompile
    /\ IdleText
    /\ IdleRegister

\* the host instance when runTests returns: createVitest threw and there
\* is none; vitest.start threw and the catch block left it open; or the
\* try block reached await vitest.close()
HostAfterRunTests(host) ==
    IF host.kind = "createThrows" THEN "none"
    ELSE IF host.kind = "startThrows" THEN "open"
    ELSE "closed"

\* runTests(testFilePaths, options) resolves
CallRunTests ==
    /\ pc = "call"
    /\ runOut' = RunTests(hostIn)
    /\ hostState' = HostAfterRunTests(hostIn)
    /\ pc' = "format"
    /\ UNCHANGED <<hostIn, rateOut, exitCode>>

\* formatErrorAnalysis(result) computes the pass rate of the report
FormatErrorAnalysis ==
    /\ pc = "format"
    /\ rateOut' = PassRate(runOut.taskResults)
    /\ pc' = "formatted"
    /\ UNCHANGED <<hostIn, runOut, exitCode, hostState>>

\* if (!result.success) process.exit(result.exitCode); otherwise the
\* handler returns and the process ends with status 0
ExitStatus(runResult) ==
    IF ~runResult.success THEN runResult.exitCode ELSE 0

\* the test command: parse and transpile the specification, write the
\* file, run it, exit; a failure before the run goes to the catch block
TestCommand ==
    /\ pc = "call"
    /\ \E prepared \in BOOLEAN :
          IF prepared
          THEN /\ runOut' = RunTests(hostIn)
               /\ hostState' = HostAfterRunTests(hostIn)
               /\ exitCode' = ExitStatus(RunTests(hostIn))
          ELSE /\ exitCode' = 1
               /\ UNCHANGED <<runOut, hostState>>
    /\ pc' = "testExited"
    /\ UNCHANGED <<hostIn, rateOut>>

\* the run command: run an already transpiled file, exit
RunCommand ==
    /\ pc = "call"
    /\ runOut' = RunTests(hostIn)
    /\ hostState' = HostAfterRunTests(hostIn)
    /\ exitCode' = ExitStatus(RunTests(hostIn))
    /\ pc' = "runExited"
    /\ UNCHANGED <<hostIn, rateOut>>

RunNext ==
    \/ CallRunTests /\ UNCHANGED <<optVars, compVars, textVars, regVars>>
    \/ FormatErrorAnalysis /\ UNCHANGED <<optVars, compVars, textVars, regVars>>
    \/ TestCommand /\ UNCHANGED <<optVars, compVars, textVars, regVars>>
    \/ RunCommand /\ UNCHANGED <<optVars, compVars, textVars, regVars>>

SpecRun == RunInit /\ [][RunNext]_vars

(***************************************************************************)
(* SpecCompile: transpileToVitest on an arbitrary specification            *)
(***************************************************************************)
\* tool names a benchmark may refer to
ToolNames == {"lookup", "refund"}

\* descriptions of a top-level property ('' is falsy: no .describe)
Descriptions == {"", "the id"}

\* property definitions at the top level of a schema
TopDefs ==
    { [d EXCEPT !.description = text] :
        d \in PropDefs(MaxDepth), text \in Descriptions }

\* specifications given to the transpiler: the schema Eval is declared or
\* not, any subset of the tool names is declared, and the benchmark names
\* any tools and is judged against Eval
CompileSpecs ==
    { [metadata   |-> "metadata",
       schemas    |-> IF declared
                      THEN <<[name |-> "Eval",
                              properties |-> NameProps(defs)]>>
                      ELSE <<>>,
       agent      |-> [model |-> "gpt-4o",
                       systemPrompt |-> "You are a support agent.",
                       toolChoice |-> "auto"],
       tools      |-> [n \in names |-> Tool(NameProps(defs))],
       benchmarks |-> <<[name |-> "greets", tools |-> refs,
                         judge |-> [evaluationSchema |-> "Eval"]]>>] :
        declared \in BOOLEAN,
        defs \in SeqsUpTo(TopDefs, MaxProps),
        names \in SUBSET ToolNames,
        refs \in SeqsUpTo(ToolNames, MaxToolRefs) }

CompileInit ==
    /\ compIn \in CompileSpecs
    /\ compOut = NoFile
    /\ pc = "compile"
    /\ IdleOpt
    /\ IdleRun
    /\ IdleText
    /\ IdleRegister

\* transpileToVitest(spec) returns; it has no throw statement
Transpile ==
    /\ pc = "compile"
    /\ compOut' = [threw |-> FALSE, program |-> TranspileToVitest(compIn)]
    /\ pc' = "compiled"
    /\ UNCHANGED compIn

CompileNext ==
    Transpile /\ UNCHANGED <<optVars, runVars, textVars, regVars>>

SpecCompile == CompileInit /\ [][CompileNext]_vars

(***************************************************************************)
(* SpecEscape: the system prompt literal of the generated program          *)
(***************************************************************************)
\* characters of a system prompt, by name: an ordinary character, the
\* backtick, the backslash, and the dollar sign and the opening brace,
\* which together open a substitution
PromptChars == {"a", "backtick", "backslash", "dollar", "brace"}

\* spec.agent.systemPrompt.replace(/[backtick]/g, [backslash][backtick])
RECURSIVE EscapeSystemPrompt(_)
EscapeSystemPrompt(chars) ==
    IF chars = <<>> THEN <<>>
    ELSE (IF Head(chars) = "backtick" THEN <<"backslash", "backtick">>
          ELSE <<Head(chars)>>)
         \o EscapeSystemPrompt(Tail(chars))

\* how the generated program reads the characters emitted between the
\* opening and the closing backtick of the dedent literal, from position
\* k on.  The lexer ends the literal at an unescaped backtick and opens a
\* substitution at dollar-brace (none of the characters closes one), so
\* either leaves a program that does not parse; a backslash takes the
\* next character with it, and a final backslash takes the line break
\* before the closing backtick.  The tag function gets the cooked strings
\* and the raw ones: cooked, an escape denotes the escaped character; raw,
\* the backslash stays, except that dedent replaces an escaped backtick
\* by a backtick.
RECURSIVE ReadTemplate(_, _, _)
ReadTemplate(literal, k, raw) ==
    IF k > Len(literal) THEN [valid |-> TRUE, text |-> <<>>]
    ELSE IF literal[k] = "backtick" THEN [valid |-> FALSE, text |-> <<>>]
    ELSE IF /\ literal[k] = "dollar"
            /\ k < Len(literal)
            /\ literal[k + 1] = "brace"
         THEN [valid |-> FALSE, text |-> <<>>]
    ELSE IF literal[k] = "backslash"
         THEN IF k = Len(literal) THEN [valid |-> TRUE, text |-> <<>>]
              ELSE LET rest == ReadTemplate(literal, k + 2, raw)
                       piece == IF raw /\ literal[k + 1] # "backtick"
                                THEN <<"backslash", literal[k + 1]>>
                                ELSE <<literal[k + 1]>>
                   IN  [valid |-> rest.valid,
                        text  |-> IF rest.valid THEN piece \o rest.text
                                  ELSE <<>>]
    ELSE LET rest == ReadTemplate(literal, k + 1, raw)
         IN  [valid |-> rest.valid,
              text  |-> IF rest.valid THEN <<literal[k]>> \o rest.text
                        ELSE <<>>]

EscapeInit ==
    /\ escIn \in SeqsUpTo(PromptChars, MaxPromptLen)
    /\ escOut = NoFile
    /\ fmtIn = NoResult
    /\ fmtOut = NoFile
    /\ pc = "emit"
    /\ IdleOpt
    /\ IdleRun
    /\ IdleCompile
    /\ IdleRegister

\* transpileToVitest writes the escaped prompt into the program
EmitSystemPrompt ==
    /\ pc = "emit"
    /\ escOut' = [literal |-> EscapeSystemPrompt(escIn)]
    /\ pc' = "emitted"
    /\ UNCHANGED <<escIn, fmtIn, fmtOut>>

\* the host loads the generated program and evaluates the literal
LoadProgram ==
    /\ pc = "emitted"
    /\ \E raw \in BOOLEAN :
          escOut' = [literal |-> escOut.literal,
                     read    |-> ReadTemplate(escOut.literal, 1, raw)]
    /\ pc' = "loaded"
    /\ UNCHANGED <<escIn, fmtIn, fmtOut>>

EscapeNext ==
    \/ EmitSystemPrompt /\ UNCHANGED <<optVars, runVars, compVars, regVars>>
    \/ LoadProgram /\ UNCHANGED <<optVars, runVars, compVars, regVars>>

SpecEscape == EscapeInit /\ [][EscapeNext]_vars

(***************************************************************************)
(* SpecFormat: formatResponseData on one responseData entry                *)
(***************************************************************************)
\* lengths of a text next to the limit it is cut at, and the empty text
LengthsAround(limit) == {0} \cup ((limit - Slack)..(limit + Slack))

\* text.substring(0, limit) followed by '...' when text.length > limit;
\* a text is modelled by its length
CutWithMarker(len, limit) ==
    [len |-> IF len > limit THEN limit ELSE len, ellipsis |-> len > limit]

\* text.substring(0, limit) followed by '...'
CutAlwaysMarked(len, limit) ==
    [len |-> IF len > limit THEN limit ELSE len, ellipsis |-> TRUE]

\* the Response line: the response itself when it is a string, its text
\* field when that is a string, its JSON text otherwise
FormatResponse(response) ==
    IF response.kind \in {"string", "text"}
    THEN CutWithMarker(response.len, ResponseLimit)
    ELSE CutAlwaysMarked(response.len, JsonLimit)

\* the lines formatResponseData writes for one entry
FormatResponseData(data) ==
    [prompt        |-> CutWithMarker(data.prompt, PromptLimit),
     response      |-> FormatResponse(data.response),
     systemMessage |-> CutAlwaysMarked(data.systemMessage,
                                       SystemMessageLimit)]

\* the entries explored: every text is empty or about as long as its limit
ResponseEntries ==
    [prompt : LengthsAround(PromptLimit),
     response : [kind : {"string", "text"}, len : LengthsAround(ResponseLimit)]
                \cup [kind : {"json"}, len : LengthsAround(JsonLimit)],
     systemMessage : LengthsAround(SystemMessageLimit)]

FormatInit ==
    /\ fmtIn \in ResponseEntries
    /\ fmtOut = NoFile
    /\ escIn = <<>>
    /\ escOut = NoFile
    /\ pc = "formatData"
    /\ IdleOpt
    /\ IdleRun
    /\ IdleCompile
    /\ IdleRegister

\* formatResponseData(result) for a result with this one entry
FormatEntry ==
    /\ pc = "formatData"
    /\ fmtOut' = FormatResponseData(fmtIn)
    /\ pc' = "formattedData"
    /\ UNCHANGED <<fmtIn, escIn, escOut>>

FormatNext == FormatEntry /\ UNCHANGED <<optVars, runVars, compVars, regVars>>

SpecFormat == FormatInit /\ [][FormatNext]_vars

(***************************************************************************)
(* SpecRegister: benchmark() and test() of the registration API            *)
(***************************************************************************)
\* the suite whose callback is executing innermost, 0 when none is
Executing == IF callStack = <<>> THEN 0 ELSE callStack[Len(callStack)]

RegisterInit ==
    /\ testSuites = <<>>
    /\ currentSuite = 0
    /\ callStack = <<>>
    /\ testCalls = <<>>
    /\ pc = "register"
    /\ IdleOpt
    /\ IdleRun
    /\ IdleCompile
    /\ IdleText

\* benchmark(name, suiteCallback) up to the call of suiteCallback, from
\* the top level or from inside a callback
BenchmarkCall ==
    /\ Len(testSuites) < MaxSuites
    /\ testSuites' = Append(testSuites, [name |-> "suite", tests |-> <<>>])
    /\ currentSuite' = Len(testSuites) + 1
    /\ callStack' = Append(callStack, Len(testSuites) + 1)
    /\ UNCHANGED <<testCalls, pc>>

\* suiteCallback() returns and benchmark() runs currentSuite = null
CallbackReturns ==
    /\ callStack # <<>>
    /\ currentSuite' = 0
    /\ callStack' = SubSeq(callStack, 1, Len(callStack) - 1)
    /\ UNCHANGED <<testSuites, testCalls, pc>>

\* suiteCallback() throws: benchmark() is left by the exception, without
\* reaching currentSuite = null
CallbackThrows ==
    /\ callStack # <<>>
    /\ callStack' = SubSeq(callStack, 1, Len(callStack) - 1)
    /\ UNCHANGED <<testSuites, currentSuite, testCalls, pc>>

\* test(name, testCallback), from the top level or from inside a callback
TestCall ==
    /\ Len(testCalls) < MaxTestCalls
    /\ IF currentSuite = 0
       THEN /\ testCalls' = Append(testCalls,
                 [inside |-> Executing, outcome |-> "threw", suite |-> 0])
            /\ UNCHANGED testSuites
       ELSE /\ testSuites' =
                 [testSuites EXCEPT ![currentSuite].tests = Append(@, "test")]
            /\ testCalls' = Append(testCalls,
                 [inside |-> Executing, outcome |-> "registered",
                  suite |-> currentSuite])
    /\ UNCHANGED <<currentSuite, callStack, pc>>

RegisterNext ==
    \/ BenchmarkCall /\ UNCHANGED <<optVars, runVars, compVars, textVars>>
    \/ CallbackReturns /\ UNCHANGED <<optVars, runVars, compVars, textVars>>
    \/ CallbackThrows /\ UNCHANGED <<optVars, runVars, compVars, textVars>>
    \/ TestCall /\ UNCHANGED <<optVars, runVars, compVars, textVars>>

SpecRegister == RegisterInit /\ [][RegisterNext]_vars

(***************************************************************************)
(* Properties                                                              *)
(***************************************************************************)
SystemPrompt(spec) == spec.agent.systemPrompt

\* number of outcomes of a report in state pass, counted over the indices
PassCount(report) ==
    Cardinality({ k \in 1..Len(report.taskResults) :
                    report.taskResults[k].state = "pass" })

TotalCount(report) == Len(report.taskResults)

\* the report's pass rate (0 for a report without outcomes) is at least t
MeetsRate(report, t) ==
    IF TotalCount(report) > 0
    THEN PassCount(report) * 100 >= t * TotalCount(report)
    ELSE 0 >= t

\* the report's pass rate reaches the threshold the loop compares against
MeetsThreshold(report) == MeetsRate(report, MinPassRate(cfg))

\* the loop has been left by a break or by its condition: the run is
\* about to save, has returned, or rejected because the save failed
LoopEnded ==
    \/ pc \in {"finish", "returned"}
    \/ pc = "threw" /\ thrown = OutputWriteFailure

\* some report of the history reaches the threshold
Converged == \E k \in 1..Len(testResults) : MeetsThreshold(testResults[k])

\* C1: the number of test executions (calls to runTests, equal to the
\* length of the testResults history) never exceeds the iteration budget,
\* and the number of improvement requests never exceeds the number of
\* executions.
C1_BudgetRespected ==
    /\ runCalls <= cfg.iterations
    /\ Len(testResults) = runCalls
    /\ aiCalls <= runCalls

\* a run that spent a budget of at least two iterations
C1_Witness ==
    /\ pc = "returned"
    /\ cfg.iterations >= 2
    /\ runCalls = cfg.iterations
    /\ aiCalls = runCalls - 1

\* C2: once an iteration has produced a report whose pass rate is at or
\* above the threshold, no step executes tests again, issues an improvement
\* request or changes the current specification, whatever budget remains.
C2_NothingAfterConvergence ==
    [][Converged => /\ runCalls' = runCalls
                    /\ aiCalls' = aiCalls
                    /\ testResults' = testResults
                    /\ currentSpec' = currentSpec]_vars

\* a run that returned after converging with budget left
C2_Witness ==
    /\ pc = "returned"
    /\ Converged
    /\ runCalls >= 2
    /\ runCalls < cfg.iterations

\* C3: for every configured threshold in 0..100 (0 included) and every
\* iteration that is not the last permitted one, the loop stops after the
\* iteration if and only if its pass rate is at least the configured
\* threshold.
C3_StopsIffConfiguredThresholdMet ==
    (pc \in {"optimize", "finish"} /\ runCalls = i + 1
        /\ i < cfg.iterations - 1)
    => ((pc = "finish") <=> MeetsRate(testResults[i + 1], cfg.minPassRate))

\* C4: with a threshold of 80, a report with 4 of 5 outcomes in state pass
\* (80% exactly) ends the loop as converged: no improvement request follows.
C4_ExactThresholdConverges ==
    (/\ cfg.minPassRate = 80
     /\ Len(testResults) >= 1
     /\ TotalCount(testResults[Len(testResults)]) = 5
     /\ PassCount(testResults[Len(testResults)]) = 4)
    => LoopEnded

\* a run with budget left returned right after a 4-of-5 report at threshold 80
C4_Witness ==
    /\ pc = "returned"
    /\ cfg.minPassRate = 80
    /\ runCalls = 1
    /\ cfg.iterations >= 2
    /\ TotalCount(testResults[1]) = 5
    /\ PassCount(testResults[1]) = 4

\* C5: every task outcome of a RunResult returned by runTests whose state is
\* 'fail' carries an error, also when the host reported the failed unit with
\* an empty or missing error list.
C5_FailedOutcomeCarriesError ==
    pc \in {"format", "formatted"}
    => \A k \in 1..Len(runOut.taskResults) :
          runOut.taskResults[k].state = "fail"
          => runOut.taskResults[k].error # NoError

\* C6 as stated, for the runs that issued a feedback call: for every input
\* specification and every text returned by the feedback calls the returned
\* specification has a non-empty system prompt.
C6_ReturnedPromptNeverEmpty ==
    (pc = "returned" /\ aiCalls >= 1)
    => SystemPrompt(result.optimizedSpec) # ""

\* C6 amended: when the input specification's system prompt is non-empty,
\* the current prompt is non-empty at every point of the run and so is the
\* returned one, whatever texts the feedback calls return; an empty current
\* prompt can only be the input's own.
C6_NonEmptyInputNeverEmptied ==
    SystemPrompt(originalSpec) # ""
    => /\ SystemPrompt(currentSpec) # ""
       /\ (pc = "returned" => SystemPrompt(result.optimizedSpec) # "")

\* every feedback call of a three-iteration run returned empty text
C6_Witness ==
    /\ pc = "returned"
    /\ aiCalls >= 2
    /\ SystemPrompt(originalSpec) # ""
    /\ SystemPrompt(result.optimizedSpec) = SystemPrompt(originalSpec)

\* C7 as stated: the pass rate equals passedCount / totalCount when
\* totalCount > 0 and 0 otherwise, and lies in [0, 1].
C7_PassRateIsFraction ==
    pc = "formatted"
    => /\ rateOut.num * TotalCount(runOut) = PassCount(runOut) * rateOut.den
       /\ 0 <= rateOut.num
       /\ rateOut.num <= rateOut.den

\* C7 amended: the pass rate is the percentage 100 * passedCount /
\* totalCount when totalCount > 0 and 0 when totalCount = 0, where only
\* outcomes in state pass count as passed; it lies in [0, 100].
C7_PassRateIsPercentage ==
    pc = "formatted"
    => /\ rateOut.den > 0
       /\ (TotalCount(runOut) > 0 =>
             rateOut.num * TotalCount(runOut)
               = 100 * PassCount(runOut) * rateOut.den)
       /\ (TotalCount(runOut) = 0 => rateOut.num = 0)
       /\ 0 <= rateOut.num
       /\ rateOut.num <= 100 * rateOut.den

\* a report of two outcomes, one pass and one skipped, scored 50
C7_Witness ==
    /\ pc = "formatted"
    /\ TotalCount(runOut) = 2
    /\ PassCount(runOut) = 1
    /\ \E k \in 1..2 : runOut.taskResults[k].state = "skip"
    /\ rateOut.num = 50 * rateOut.den

\* every report of the history is below the threshold
AllBelowThreshold ==
    \A k \in 1..Len(testResults) : ~MeetsThreshold(testResults[k])

\* C8: if every execution yields a report below the threshold and every
\* feedback call succeeds, a run with budget N >= 1 returns after exactly N
\* executions and N - 1 improvement requests with a history of length N.
C8_ExhaustsBudget ==
    (pc = "returned" /\ cfg.iterations >= 1 /\ AllBelowThreshold)
    => /\ runCalls = cfg.iterations
       /\ aiCalls = cfg.iterations - 1
       /\ Len(result.testResults) = cfg.iterations
       /\ i = cfg.iterations - 1

\* a run with budget 3 whose reports all failed every unit
C8_Witness ==
    /\ pc = "returned"
    /\ cfg.iterations = 3
    /\ AllBelowThreshold
    /\ Len(result.testResults) = 3
    /\ \A k \in 1..3 : PassCount(result.testResults[k]) = 0
                       /\ TotalCount(result.testResults[k]) >= 1

\* every outcome of the report is in state pass
AllPass(report) ==
    \A k \in 1..Len(report.taskResults) : report.taskResults[k].state = "pass"

\* the run stopped after one execution with the input's prompt
ConvergedAtFirst ==
    /\ LoopEnded
    /\ runCalls = 1
    /\ aiCalls = 0
    /\ SystemPrompt(currentSpec) = SystemPrompt(originalSpec)
    /\ (pc = "returned" =>
          SystemPrompt(result.optimizedSpec) = SystemPrompt(originalSpec))

\* C9 as stated: if the first report has every outcome in state pass, the
\* run converges at iteration 1 with one execution, no improvement request
\* and the input's system prompt.
C9_AllPassConvergesAtFirst ==
    (Len(testResults) >= 1 /\ AllPass(testResults[1])) => ConvergedAtFirst

\* C9 amended: if the first report has at least one outcome and every
\* outcome is in state pass, the run converges at iteration 1 with one
\* execution, no improvement request and the input's system prompt.
C9_NonEmptyAllPassConvergesAtFirst ==
    (/\ Len(testResults) >= 1
     /\ TotalCount(testResults[1]) >= 1
     /\ AllPass(testResults[1]))
    => ConvergedAtFirst

\* an all-pass first report with threshold 100 and budget left
C9_Witness ==
    /\ pc = "returned"
    /\ cfg.iterations >= 2
    /\ cfg.minPassRate = 100
    /\ TotalCount(testResults[1]) >= 1
    /\ AllPass(testResults[1])

\* C10: when optimizeAgentSpec returns after at least one execution, the
\* returned optimizedSpec is the last specification tried: its system
\* prompt is the one in effect for the final execution of the returned
\* history, not an earlier one and not one that was never executed.
C10_ReturnsLastTried ==
    (pc = "returned" /\ Len(execPrompts) >= 1)
    => /\ Len(result.testResults) = Len(execPrompts)
       /\ SystemPrompt(result.optimizedSpec) = execPrompts[Len(execPrompts)]

\* the first of two iterations scored higher under a different prompt
C10_Witness ==
    /\ pc = "returned"
    /\ Len(execPrompts) = 2
    /\ execPrompts[1] # execPrompts[2]
    /\ PassCount(result.testResults[1]) > PassCount(result.testResults[2])
    /\ SystemPrompt(result.optimizedSpec) = execPrompts[2]

\* a report of a run whose submission to the host threw
IsFatal(report) ==
    /\ ~report.success
    /\ report.taskResults = <<>>
    /\ Len(report.taskErrors) = 1

\* runTests has been called, directly or by a command that got as far as
\* running the file
RunTestsCalled ==
    \/ pc \in {"format", "formatted", "runExited"}
    \/ pc = "testExited" /\ runOut # NoResult

\* C11: when createVitest or vitest.start throws inside runTests, runTests
\* still resolves, with a RunResult that has success = false, an empty
\* taskResults list and a taskErrors list of exactly one error.
C11_HostFailureBecomesReport ==
    (hostIn.kind \in {"createThrows", "startThrows"} /\ RunTestsCalled)
    => /\ runOut # NoResult
       /\ ~runOut.success
       /\ runOut.taskResults = <<>>
       /\ Len(runOut.taskErrors) = 1
       /\ runOut.taskErrors[1].kind = "Error"

\* runTests has returned after vitest.start threw
C11_Witness ==
    /\ hostIn.kind = "startThrows"
    /\ pc = "format"
    /\ IsFatal(runOut)

\* C12: a report of a failed submission does not abort optimizeAgentSpec.
\* It is appended to the history with zero outcomes; its pass rate counts
\* as 0 in the break test, so the run goes on to the feedback call unless
\* the report is the last of the budget (or 0 reaches the threshold); the
\* host's error is never what the run rejects with; and the iteration is
\* not executed again: the next execution comes only after a feedback call.
C12_FatalReportIsOrdinary ==
    \A k \in 1..Len(testResults) :
        IsFatal(testResults[k])
        => /\ TotalCount(testResults[k]) = 0
           /\ thrown # ThrownError
           /\ runCalls = Len(testResults)
           /\ IF k = cfg.iterations \/ MeetsThreshold(testResults[k])
              THEN /\ k = Len(testResults)
                   /\ Len(requests) = k - 1
                   /\ pc \in {"finish", "returned", "threw"}
              ELSE \/ /\ k = Len(testResults)
                      /\ Len(requests) = k - 1
                      /\ pc = "optimize"
                   \/ Len(requests) >= k
           /\ (Len(testResults) > k => Len(requests) >= k)

\* a run that returned after a failed submission in its first iteration
\* and a completed second iteration
C12_Witness ==
    /\ pc = "returned"
    /\ Len(testResults) = 2
    /\ IsFatal(testResults[1])
    /\ TotalCount(testResults[2]) >= 1

\* C13: a report of a failed submission is treated as no useful feedback:
\* no improvement request is ever built from such a report.
C13_NoRequestFromFatalReport ==
    \A k \in 1..Len(requests) : ~IsFatal(requests[k].testResult)

\* C14: when a feedback call to the provider fails, optimizeAgentSpec
\* aborts: that request is the last step of the run, no execution and no
\* request follows it, nothing is written to the output path, nothing is
\* returned, and the caller gets the failure.
C14_FeedbackFailureAborts ==
    \A k \in 1..Len(requests) :
        ~requests[k].ok
        => /\ k = Len(requests)
           /\ pc = "threw"
           /\ thrown = AiFailure
           /\ runCalls = k
           /\ Len(testResults) = k
           /\ savedSpec = NoSpec
           /\ result = NoResult

\* the provider failed in the second iteration, after one prompt update
C14_Witness ==
    /\ pc = "threw"
    /\ Len(requests) = 2
    /\ requests[1].ok
    /\ ~requests[2].ok
    /\ Len(improvements) = 1

\* what the caller of optimizeAgentSpec holds when the call has ended: the
\* returned value, or the error the call rejected with
CallerReceivesHistory ==
    \/ /\ result # NoResult
       /\ result.testResults = testResults
    \/ /\ "testResults" \in DOMAIN thrown
       /\ thrown.testResults = testResults

\* C15: when a run fails after at least one execution, the caller of
\* optimizeAgentSpec receives the reports accumulated up to the failure.
C15_FailureCarriesHistory ==
    (pc = "threw" /\ Len(testResults) >= 1) => CallerReceivesHistory

\* C16: once a run of optimizeAgentSpec has ended, by returning or by
\* rejecting after a failed feedback call, a failed rewrite of the test
\* file or a failed save of the output, the temporary test file no longer
\* exists.
C16_TestFileGoneAtEnd ==
    pc \in {"returned", "threw"} => testFile = NoFile

\* the run rejected because the recompiled program could not be written,
\* after the prompt had been updated
C16_Witness ==
    /\ pc = "threw"
    /\ thrown = TestFileWriteFailure
    /\ Len(improvements) >= 1
    /\ testFile = NoFile

\* names of the schemas a specification declares
DeclaredSchemas(spec) ==
    { spec.schemas[k].name : k \in 1..Len(spec.schemas) }

\* a benchmark lists a tool name that is not a key of the tools mapping
DanglingToolRef(spec) ==
    \E b \in 1..Len(spec.benchmarks) :
        \E k \in 1..Len(spec.benchmarks[b].tools) :
            spec.benchmarks[b].tools[k] \notin DOMAIN spec.tools

\* a judge or a tool names a schema that is not declared
DanglingSchemaRef(spec) ==
    \/ \E b \in 1..Len(spec.benchmarks) :
          spec.benchmarks[b].judge.evaluationSchema
              \notin DeclaredSchemas(spec)
    \/ \E n \in DOMAIN spec.tools :
          spec.tools[n].outputSchema \notin DeclaredSchemas(spec)

\* C17: transpileToVitest fails with a compile error, and returns no
\* program, for every specification in which a benchmark names a tool
\* absent from the tools mapping or a tool or judge names an undeclared
\* schema.
C17_DanglingReferenceRejected ==
    (pc = "compiled"
       /\ (DanglingToolRef(compIn) \/ DanglingSchemaRef(compIn)))
    => compOut.threw

\* C18: whenever the test or the run command obtains a RunResult with
\* success = false, from failing cases or from a failed submission, the
\* process ends with a non-zero exit status.
C18_FailedRunExitsNonZero ==
    (pc \in {"testExited", "runExited"}
       /\ runOut # NoResult
       /\ ~runOut.success)
    => exitCode \notin {0, NoExit}

\* two specifications agree on everything but agent.systemPrompt
SameExceptPrompt(a, b) ==
    /\ DOMAIN a = DOMAIN b
    /\ DOMAIN a.agent = DOMAIN b.agent
    /\ a.metadata = b.metadata
    /\ a.schemas = b.schemas
    /\ a.tools = b.tools
    /\ a.benchmarks = b.benchmarks
    /\ \A field \in DOMAIN a.agent \ {"systemPrompt"} :
          a.agent[field] = b.agent[field]

\* C19: the prompt updates of optimizeAgentSpec change nothing but
\* agent.systemPrompt: the current specification always agrees with the
\* caller's on metadata, schemas, tools, benchmarks and the other agent
\* fields, and the caller's specification, which is returned as
\* originalSpec, keeps the system prompt the first execution ran with.
C19_OnlyPromptChanges ==
    /\ SameExceptPrompt(currentSpec, originalSpec)
    /\ (Len(execPrompts) >= 1 => SystemPrompt(originalSpec) = execPrompts[1])
    /\ (pc = "returned"
          => /\ result.originalSpec = originalSpec
             /\ SameExceptPrompt(result.optimizedSpec, originalSpec))

\* a run that returned after two prompt updates with a prompt other than
\* the caller's
C19_Witness ==
    /\ pc = "returned"
    /\ Len(improvements) = 2
    /\ SystemPrompt(result.optimizedSpec) # SystemPrompt(result.originalSpec)
    /\ SystemPrompt(result.originalSpec) = execPrompts[1]

\* the validator kind the property type calls for: the type itself for
\* string, number and boolean, accept-anything for every other type
ExpectedZod(type) ==
    IF type \in {"string", "number", "boolean"} THEN type ELSE "any"

\* the validators generated for entries are the expected ones, property
\* by property; object-typed properties are left to their own case
ValidatorsMatch(entries, generated) ==
    /\ Len(generated) = Len(entries)
    /\ \A k \in 1..Len(entries) :
          /\ generated[k].name = entries[k].name
          /\ entries[k].def.type # "object"
             => /\ generated[k].zod.zod = ExpectedZod(entries[k].def.type)
                /\ generated[k].zod.props = <<>>

\* C20: for every property of a schema and every input property of a tool
\* a test uses, the generated validator is z.string() for type 'string',
\* z.number() for 'number', z.boolean() for 'boolean' and z.any() for a
\* type the transpiler does not know, such as 'vector3'; such a type never
\* makes transpileToVitest fail.
C20_ValidatorsFollowTypes ==
    pc = "compiled"
    => /\ ~compOut.threw
       /\ Len(compOut.program.schemas) = Len(compIn.schemas)
       /\ \A s \in 1..Len(compIn.schemas) :
             ValidatorsMatch(compIn.schemas[s].properties,
                             compOut.program.schemas[s].props)
       /\ \A t \in 1..Len(compOut.program.tests) :
             \A e \in 1..Len(compOut.program.tests[t].tools) :
                LET entry == compOut.program.tests[t].tools[e]
                IN  ValidatorsMatch(
                        compIn.tools[entry.name].inputSchema.properties,
                        entry.parameters)

\* a compiled specification whose schema and whose tool in use both have
\* a property of type 'vector3'
C20_Witness ==
    /\ pc = "compiled"
    /\ Len(compIn.schemas) = 1
    /\ Len(compIn.schemas[1].properties) >= 1
    /\ compIn.schemas[1].properties[1].def.type = "vector3"
    /\ compOut.program.schemas[1].props[1].zod.zod = "any"
    /\ Len(compOut.program.tests[1].tools) >= 1
    /\ compOut.program.tests[1].tools[1].parameters[1].zod.zod = "any"

\* C21: generateSchemas declares nested properties recursively: a property
\* nested in an object property of a schema gets the validator it would
\* get as a property of the schema itself, at every depth.
C21_NestedPropertiesDeclaredRecursively ==
    pc = "compiled"
    => \A s \in 1..Len(compIn.schemas) :
          \A k \in 1..Len(compIn.schemas[s].properties) :
             LET def == compIn.schemas[s].properties[k].def
                 zod == compOut.program.schemas[s].props[k].zod
             IN  def.type = "object"
                 => /\ Len(zod.props) = Len(def.properties)
                    /\ \A j \in 1..Len(def.properties) :
                          zod.props[j].zod
                              = SchemaZodType(def.properties[j].def)

\* C22: for every system prompt, the literal transpileToVitest emits keeps
\* the generated program well formed and denotes the prompt again when the
\* program is loaded.
C22_EscapeRoundTrip ==
    pc = "loaded" => /\ escOut.read.valid
                     /\ escOut.read.text = escIn

\* a field is cut to at most limit characters and carries the ellipsis
\* marker exactly when it was longer than that
CutIffLonger(len, cut, limit) ==
    /\ cut.len <= limit
    /\ cut.ellipsis <=> len > limit

\* C23: in the formatted response data the prompt is cut to at most 200
\* characters, the response to at most 500 and the system message to at
\* most 100, and each is followed by the ellipsis marker if and only if
\* it was truncated.
C23_FieldsCutAndMarked ==
    pc = "formattedData"
    => /\ CutIffLonger(fmtIn.prompt, fmtOut.prompt, PromptLimit)
       /\ CutIffLonger(fmtIn.response.len, fmtOut.response, ResponseLimit)
       /\ CutIffLonger(fmtIn.systemMessage, fmtOut.systemMessage,
                       SystemMessageLimit)

\* C24: whenever optimizeAgentSpec is about to execute the tests, the
\* test file holds the compilation of the current specification, and the
\* system message given to the host, the current specification's system
\* prompt, is the prompt that file embeds: the file has been rewritten
\* since the last prompt update.
C24_FileIsCurrentAtExecution ==
    pc = "runTests"
    => /\ testFile = TranspileToVitest(currentSpec)
       /\ testFile.systemPrompt = SystemPrompt(currentSpec)

\* the third execution is about to start under a prompt other than the
\* caller's
C24_Witness ==
    /\ pc = "runTests"
    /\ runCalls = 2
    /\ SystemPrompt(currentSpec) # SystemPrompt(originalSpec)
    /\ testFile.systemPrompt = SystemPrompt(currentSpec)

\* C25: the k-th improvement request of a run is built from the report of
\* the k-th execution, not an older one, and from the system prompt that
\* execution ran with.
C25_RequestFromSameIteration ==
    \A k \in 1..Len(requests) :
        /\ k <= Len(testResults)
        /\ requests[k].testResult = testResults[k]
        /\ requests[k].currentPrompt = execPrompts[k]

\* the second request was built from a second report that differs from
\* the first, under a prompt that differs from the first
C25_Witness ==
    /\ Len(requests) = 2
    /\ testResults[1] # testResults[2]
    /\ execPrompts[1] # execPrompts[2]
    /\ requests[2].testResult = testResults[2]
    /\ requests[2].currentPrompt = execPrompts[2]

\* C26: the history of optimizeAgentSpec is append-only: every step keeps
\* the reports it holds, in their order; an execution adds exactly one
\* report at the end and no other step changes it; it holds as many
\* reports as there were executions, and is returned as it is.
C26_HistoryAppendOnly ==
    [][/\ Len(testResults') >= Len(testResults)
       /\ SubSeq(testResults', 1, Len(testResults)) = testResults
       /\ Len(testResults') = Len(testResults) + (runCalls' - runCalls)
       /\ runCalls' - runCalls \in {0, 1}
       /\ Len(testResults') = runCalls'
       /\ (pc' = "returned" => result'.testResults = testResults')]_vars

\* a returned history of three reports with different pass counts
C26_Witness ==
    /\ pc = "returned"
    /\ Len(result.testResults) = 3
    /\ PassCount(result.testResults[1]) < PassCount(result.testResults[2])
    /\ PassCount(result.testResults[2]) > PassCount(result.testResults[3])

\* C27: runTests closes the host instance it created before it returns,
\* when the run completes and when a step after the creation throws.
C27_HostClosedBeforeReturn ==
    (RunTestsCalled /\ hostIn.kind # "createThrows")
    => hostState = "closed"

\* C28: in every RunResult returned by runTests, success = true implies
\* that no task outcome has state 'fail'.
C28_SuccessMeansNoFailedOutcome ==
    (runOut # NoResult /\ runOut.success)
    => \A k \in 1..Len(runOut.taskResults) :
          runOut.taskResults[k].state # "fail"

\* C29 as stated: the iterations field of the returned object equals the
\* number of iterations executed, the length of the returned history.
C29_IterationsFieldCountsExecutions ==
    pc = "returned" => result.iterations = Len(result.testResults)

\* C29 amended: the iterations field of the returned object is the
\* configured budget; the returned history is never longer than it, and
\* is shorter only when the last report reached the threshold before
\* the budget was spent.
C29_IterationsFieldIsBudget ==
    pc = "returned"
    => /\ result.iterations = cfg.iterations
       /\ Len(result.testResults) <= result.iterations
       /\ Len(result.testResults) < result.iterations
          => /\ Len(result.testResults) >= 1
             /\ MeetsThreshold(result.testResults[Len(result.testResults)])

\* a run with a budget of three returned after one execution
C29_Witness ==
    /\ pc = "returned"
    /\ result.iterations = 3
    /\ Len(result.testResults) = 1

\* C30: after any sequence of benchmark() and test() calls, with callbacks
\* that throw and nested benchmark() calls, every test() call made while
\* no benchmark callback was executing threw and registered nothing, and
\* every test that was registered went into the suite whose callback was
\* executing.
C30_TestRegistersIntoExecutingSuite ==
    \A c \in 1..Len(testCalls) :
        /\ testCalls[c].inside = 0
           => testCalls[c].outcome = "threw" /\ testCalls[c].suite = 0
        /\ testCalls[c].outcome = "registered"
           => testCalls[c].suite = testCalls[c].inside

====
